---- MODULE Spec2Model ----
(***************************************************************************)
(* The error-state Kalman filter of src/src/imu/ekf.cpp (class vllm::EKF): *)
(* init, predict, observe and getState over the members pos, vel, qua,     *)
(* scale, P and last_ns.                                                   *)
(*                                                                         *)
(* Numbers.  A float is modelled by an exact rational <<n, d>> in lowest   *)
(* terms (d > 0), plus the one value NaN == <<0, 0>> that stands for every *)
(* non-finite float (NaN, +Inf, -Inf): it is what a division by zero       *)
(* yields and it absorbs every later operation, as in IEEE arithmetic.     *)
(* Rounding is not modelled: the inputs are enumerated where every square  *)
(* root, cosine and sine the code takes is rational.  That means           *)
(*   - angular rates are given in units of pi rad/s along one axis and     *)
(*     time stamps in whole seconds, so that exp sees k*pi on an axis;     *)
(*   - measured poses are enumerated where the attitude correction of      *)
(*     observe is the zero vector (or NaN), the only other argument of     *)
(*     exp whose cosine and sine are rational.                             *)
(* The unsigned 64-bit time stamp is modelled by arithmetic modulo TsMod.  *)
(***************************************************************************)
EXTENDS Integers, Sequences, FiniteSets, TLC

(* ----------------------------- scalars -------------------------------- *)

NaN == <<0, 0>>
Zero == <<0, 1>>
One == <<1, 1>>
Half == <<1, 2>>

IsNaN(a) == a[2] = 0

Abs(n) == IF n < 0 THEN -n ELSE n

RECURSIVE Gcd(_, _)
Gcd(a, b) == IF b = 0 THEN a ELSE Gcd(b, a % b)

Rat(n, d) ==
  LET g == Gcd(Abs(n), d)
  IN  <<n \div g, d \div g>>

RInt(n) == <<n, 1>>

\* a + b over the least common denominator, g the gcd of the denominators
RAddOver(a, b, g) ==
  Rat(a[1] * (b[2] \div g) + b[1] * (a[2] \div g), (a[2] \div g) * b[2])

RAdd(a, b) ==
  IF IsNaN(a) \/ IsNaN(b) THEN NaN
  ELSE IF b[1] = 0 THEN a
  ELSE IF a[1] = 0 THEN b
  ELSE IF a[2] = 1 /\ b[2] = 1 THEN <<a[1] + b[1], 1>>
  ELSE RAddOver(a, b, Gcd(a[2], b[2]))

RNeg(a) == <<-a[1], a[2]>>

RSub(a, b) == RAdd(a, RNeg(b))

\* a * b with the common factors g1 of a's numerator and b's denominator and
\* g2 of b's numerator and a's denominator cancelled first
RMulOver(a, b, g1, g2) ==
  <<(a[1] \div g1) * (b[1] \div g2), (a[2] \div g2) * (b[2] \div g1)>>

RMul(a, b) ==
  IF IsNaN(a) \/ IsNaN(b) THEN NaN
  ELSE IF a[1] = 0 \/ b[1] = 0 THEN Zero
  ELSE IF a[2] = 1 /\ b[2] = 1 THEN <<a[1] * b[1], 1>>
  ELSE RMulOver(a, b, Gcd(Abs(a[1]), b[2]), Gcd(Abs(b[1]), a[2]))

RDiv(a, b) ==
  IF IsNaN(a) \/ IsNaN(b) \/ b[1] = 0 THEN NaN
  ELSE IF b[1] > 0 THEN RMul(a, <<b[2], b[1]>>)
  ELSE RMul(a, <<-b[2], -b[1]>>)

RPos(a) == ~IsNaN(a) /\ a[1] > 0

RLess(a, b) == ~IsNaN(a) /\ ~IsNaN(b) /\ a[1] * b[2] < b[1] * a[2]

\* std::sqrt on the values the enumerated inputs produce (squares of rationals).
ISqrt(n) == CHOOSE r \in 0..n : r * r = n

RSqrt(a) == IF IsNaN(a) \/ a[1] < 0 THEN NaN ELSE <<ISqrt(a[1]), ISqrt(a[2])>>

(* ----------------------- vectors and matrices ------------------------- *)

\* A function on 1..n as the tuple of its values (each computed once)
Strict(f) == f \o <<>>

\* The sum of u[k] * v[k] over finite entries (a zero term adds nothing)
RECURSIVE DotK(_, _, _)
DotK(u, v, k) ==
  IF k = 0 THEN Zero
  ELSE IF u[k][1] = 0 \/ v[k][1] = 0 THEN DotK(u, v, k - 1)
  ELSE RAdd(DotK(u, v, k - 1), RMul(u[k], v[k]))

\* u . v: NaN as soon as one entry is NaN (NaN * 0 is NaN)
Dot(u, v) ==
  IF \E k \in 1..Len(u) : IsNaN(u[k]) \/ IsNaN(v[k]) THEN NaN
  ELSE DotK(u, v, Len(u))

VAdd(u, v) == Strict([k \in 1..Len(u) |-> RAdd(u[k], v[k])])
VSub(u, v) == Strict([k \in 1..Len(u) |-> RSub(u[k], v[k])])
VScale(c, u) == Strict([k \in 1..Len(u) |-> RMul(c, u[k])])
VDivS(u, c) == Strict([k \in 1..Len(u) |-> RDiv(u[k], c)])
VHasNaN(u) == \E k \in 1..Len(u) : IsNaN(u[k])

Transpose(A) == Strict([j \in 1..Len(A[1]) |-> Strict([i \in 1..Len(A) |-> A[i][j]])])

\* A * Bt^T
MatMulT(A, Bt) ==
  Strict([i \in 1..Len(A) |-> Strict([j \in 1..Len(Bt) |-> Dot(A[i], Bt[j])])])

MatMul(A, B) == MatMulT(A, Transpose(B))

MatVec(A, v) == Strict([i \in 1..Len(A) |-> Dot(A[i], v)])
MatAdd(A, B) == Strict([i \in 1..Len(A) |-> VAdd(A[i], B[i])])
MatSub(A, B) == Strict([i \in 1..Len(A) |-> VSub(A[i], B[i])])
MatScale(c, A) == Strict([i \in 1..Len(A) |-> VScale(c, A[i])])
MatHasNaN(A) == \E i \in 1..Len(A) : VHasNaN(A[i])

Identity(n) == Strict([i \in 1..n |-> Strict([j \in 1..n |-> IF i = j THEN One ELSE Zero])])
ZeroMat(r, c) == Strict([i \in 1..r |-> Strict([j \in 1..c |-> Zero])])
NaNMat(r, c) == Strict([i \in 1..r |-> Strict([j \in 1..c |-> NaN])])
Zero3 == <<Zero, Zero, Zero>>

\* A.block(r0, c0, nr, nc) with Eigen's 0-based corner
Block(A, r0, c0, nr, nc) ==
  Strict([i \in 1..nr |-> Strict([j \in 1..nc |-> A[r0 + i][c0 + j]])])

\* A with A.block(r0, c0, ...) = B
SetBlock(A, r0, c0, B) ==
  Strict([i \in 1..Len(A) |-> Strict([j \in 1..Len(A[1]) |->
     IF i > r0 /\ i <= r0 + Len(B) /\ j > c0 /\ j <= c0 + Len(B[1])
     THEN B[i - r0][j - c0] ELSE A[i][j]])])

(* ------------------- Eigen operations the code calls ------------------ *)

\* A quaternion is <<w, x, y, z>> (the order of Eigen's constructor, line 22).
qw(q) == q[1]
qx(q) == q[2]
qy(q) == q[3]
qz(q) == q[4]
QIdentity == <<One, Zero, Zero, Zero>>

\* v.norm()
norm(v) == RSqrt(Dot(v, v))

\* MatrixBase::normalized() without the test for a zero vector: n / n.norm()
normalizedUnguarded(v) == VDivS(v, norm(v))

\* MatrixBase::normalized(): the vector over its norm, and the vector itself
\* when its squared norm is not greater than zero
normalized(v) ==
  IF RPos(Dot(v, v)) THEN VDivS(v, norm(v)) ELSE v

\* Quaternion product a * b
quatMul(a, b) ==
  << RSub(RSub(RSub(RMul(qw(a), qw(b)), RMul(qx(a), qx(b))), RMul(qy(a), qy(b))), RMul(qz(a), qz(b))),
     RSub(RAdd(RAdd(RMul(qw(a), qx(b)), RMul(qx(a), qw(b))), RMul(qy(a), qz(b))), RMul(qz(a), qy(b))),
     RSub(RAdd(RAdd(RMul(qw(a), qy(b)), RMul(qy(a), qw(b))), RMul(qz(a), qx(b))), RMul(qx(a), qz(b))),
     RSub(RAdd(RAdd(RMul(qw(a), qz(b)), RMul(qz(a), qw(b))), RMul(qx(a), qy(b))), RMul(qy(a), qx(b))) >>

\* q.toRotationMatrix()
toRotationMatrix(q) ==
  LET two == RInt(2)
      tx == RMul(two, qx(q))
      ty == RMul(two, qy(q))
      tz == RMul(two, qz(q))
      twx == RMul(tx, qw(q))
      twy == RMul(ty, qw(q))
      twz == RMul(tz, qw(q))
      txx == RMul(tx, qx(q))
      txy == RMul(ty, qx(q))
      txz == RMul(tz, qx(q))
      tyy == RMul(ty, qy(q))
      tyz == RMul(tz, qy(q))
      tzz == RMul(tz, qz(q))
  IN  << << RSub(One, RAdd(tyy, tzz)), RSub(txy, twz), RAdd(txz, twy) >>,
         << RAdd(txy, twz), RSub(One, RAdd(txx, tzz)), RSub(tyz, twx) >>,
         << RSub(txz, twy), RAdd(tyz, twx), RSub(One, RAdd(txx, tyy)) >> >>

\* Eigen::Quaternionf(R): the quaternion of a 3x3 matrix (by the trace when it
\* is positive, else by the largest diagonal entry)
quatFromMatrix(m) ==
  LET tr == RAdd(RAdd(m[1][1], m[2][2]), m[3][3])
  IN  IF RPos(tr)
      THEN LET t == RSqrt(RAdd(tr, One))
               u == RDiv(Half, t)
           IN  << RMul(Half, t),
                  RMul(RSub(m[3][2], m[2][3]), u),
                  RMul(RSub(m[1][3], m[3][1]), u),
                  RMul(RSub(m[2][1], m[1][2]), u) >>
      ELSE LET i0 == IF RLess(m[1][1], m[2][2]) THEN 2 ELSE 1
               i == IF RLess(m[i0][i0], m[3][3]) THEN 3 ELSE i0
               j == (i % 3) + 1
               k == (j % 3) + 1
               t == RSqrt(RAdd(RSub(RSub(m[i][i], m[j][j]), m[k][k]), One))
               u == RDiv(Half, t)
               c == Strict([n \in 1..3 |->
                       IF n = i THEN RMul(Half, t)
                       ELSE IF n = j THEN RMul(RAdd(m[j][i], m[i][j]), u)
                       ELSE RMul(RAdd(m[k][i], m[i][k]), u)])
           IN  << RMul(RSub(m[k][j], m[j][k]), u), c[1], c[2], c[3] >>

\* Quaternion::normalized() skipped: the quaternion as it is
quatNotNormalized(q) == q

\* Quaternion::normalized(): its coefficients normalized
quatNormalized(q) == normalized(q)

\* std::cos and std::sin of a*pi, for a a multiple of 1/2
QuarterTurns(a) == ((a[1] * (2 \div a[2])) % 4)

Cos(a) ==
  IF IsNaN(a) THEN NaN
  ELSE CASE QuarterTurns(a) = 0 /\ 2 % a[2] = 0 -> One
         [] QuarterTurns(a) = 1 /\ 2 % a[2] = 0 -> Zero
         [] QuarterTurns(a) = 2 /\ 2 % a[2] = 0 -> RInt(-1)
         [] QuarterTurns(a) = 3 /\ 2 % a[2] = 0 -> Zero

Sin(a) ==
  IF IsNaN(a) THEN NaN
  ELSE CASE QuarterTurns(a) = 0 /\ 2 % a[2] = 0 -> Zero
         [] QuarterTurns(a) = 1 /\ 2 % a[2] = 0 -> One
         [] QuarterTurns(a) = 2 /\ 2 % a[2] = 0 -> Zero
         [] QuarterTurns(a) = 3 /\ 2 % a[2] = 0 -> RInt(-1)

\* S.inverse() by elimination on [S | I].  A pivot column with no non-zero
\* entry is the division by zero of the triangular solve: every entry of
\* K = P * H^T * Si then has a non-finite term, so the result is all NaN.
PivotRows(A, n, c) == {r \in c..n : A[r][c][1] # 0}

\* Row p, scaled to a unit pivot, moves to row c and clears column c elsewhere
Reduce(A, n, c, p, prow) ==
  Strict([r \in 1..n |->
     IF r = c THEN prow
     ELSE IF r = p THEN VSub(A[c], VScale(A[c][c], prow))
     ELSE VSub(A[r], VScale(A[r][c], prow))])

ReduceAt(A, n, c, p) == Reduce(A, n, c, p, VDivS(A[p], A[p][c]))

RECURSIVE Eliminate(_, _, _)
Eliminate(A, n, c) ==
  IF c > n THEN A
  ELSE IF PivotRows(A, n, c) = {} THEN NaNMat(n, 2 * n)
  ELSE Eliminate(
         ReduceAt(A, n, c, CHOOSE r \in PivotRows(A, n, c) :
                             \A r2 \in PivotRows(A, n, c) : r <= r2),
         n, c + 1)

inverse(S) ==
  LET n == Len(S)
  IN  IF MatHasNaN(S) THEN NaNMat(n, n)
      ELSE LET aug == Strict([i \in 1..n |-> Strict([j \in 1..(2 * n) |->
                         IF j <= n THEN S[i][j]
                         ELSE IF j - n = i THEN One ELSE Zero])])
           IN  Block(Eliminate(aug, n, 1), 0, n, n, n)

(* ------------------------------ bounds -------------------------------- *)

\* init, predict and observe calls in one run
MaxCalls == 4
\* Time stamps are 0 .. TsMod - 1 (seconds); TsMod stands for 2^64 ns, the
\* modulus of unsigned long.
TsMod == 3

(* ----------------------- configuration and inputs --------------------- *)

\* gravity: the constant vector predict subtracts (line 47)
gravity == <<Zero, Zero, RInt(10)>>
\* LQL: the process noise predict adds per unit of time (line 54)
LQL == Identity(9)
\* W: the measurement noise of observe (line 78): a well-formed one, and
\* the all-zero one of a misconfigured filter
WNominal == MatScale(Half, Identity(7))
WZero == ZeroMat(7, 7)

\* The 4x4 pose with rotation block s*R and translation t
MakePose(s, R, t) ==
  LET B == MatScale(s, R)
  IN  << << B[1][1], B[1][2], B[1][3], t[1] >>,
         << B[2][1], B[2][2], B[2][3], t[2] >>,
         << B[3][1], B[3][2], B[3][3], t[3] >>,
         << Zero, Zero, Zero, One >> >>

topLeftCorner3(T) == Block(T, 0, 0, 3, 3)
topRightCorner31(T) == <<T[1][4], T[2][4], T[3][4]>>

QuatX == <<Zero, One, Zero, Zero>>

\* init's arguments: the identity pose at rest, and a pose of scale 5 turned
\* by pi about x (its rotation block is not orthonormal)
InitArgs ==
  { << MakePose(One, toRotationMatrix(QIdentity), Zero3), Zero3 >>,
    << MakePose(RInt(5), toRotationMatrix(QuatX), <<One, RInt(2), RInt(3)>>),
       <<One, Zero, Zero>> >> }

\* predict's (acc, omega): omega in units of pi rad/s
ImuArgs ==
  { << Zero3, Zero3 >>,
    << <<One, Zero, One>>, <<One, Zero, Zero>> >> }

TimeStamps == 0..(TsMod - 1)

VARIABLES
  pos, vel, qua, scale, P, last_ns,   \* the members of EKF
  W,                                  \* the member W, set at construction
  initialized,                        \* whether init has run (isUpadatable)
  call,                               \* the last call and its arguments
  loc,                                \* its local values and its return value
  ncalls,                             \* the number of calls so far
  hist_ns,                            \* the ns of the last predict, -1 if none
  hist_obs                            \* whether observe ran since that predict

vars == <<pos, vel, qua, scale, P, last_ns, W, initialized, call, loc, ncalls,
          hist_ns, hist_obs>>
members == <<pos, vel, qua, scale, P, last_ns>>

(* ------------------------------- EKF ---------------------------------- *)

\* hat (lines 134-144)
hat(vec) ==
  << << Zero, RNeg(vec[3]), vec[2] >>,
     << vec[3], Zero, RNeg(vec[1]) >>,
     << RNeg(vec[2]), vec[1], Zero >> >>

\* getState without the scale factor
getStateNoScale ==
  MakePose(One, toRotationMatrix(qua), pos)

\* getState (lines 8-14)
getState ==
  MakePose(scale, toRotationMatrix(qua), pos)

\* exp (lines 16-23); v is in units of pi
exp(v) ==
  LET nrm == norm(v)
      c == Cos(RDiv(nrm, RInt(2)))
      s == Sin(RDiv(nrm, RInt(2)))
      n == VScale(s, normalized(v))
  IN  << c, n[1], n[2], n[3] >>

\* calcH (lines 98-113)
calcH(q) ==
  LET Q == MatScale(Half,
             << << RNeg(qx(q)), RNeg(qy(q)), RNeg(qz(q)) >>,
                << qw(q), RNeg(qz(q)), qy(q) >>,
                << qz(q), qw(q), RNeg(qx(q)) >>,
                << RNeg(qy(q)), qx(q), qw(q) >> >>)
      H0 == SetBlock(ZeroMat(7, 9), 0, 0, Identity(3))
  IN  SetBlock(H0, 3, 6, Q)

\* calcF (lines 115-121)
calcF(q, acc, dt) ==
  LET F0 == SetBlock(Identity(9), 0, 3, MatScale(dt, Identity(3)))
  IN  SetBlock(F0, 3, 6,
        MatScale(dt, MatScale(RInt(-1), hat(MatVec(toRotationMatrix(q), acc)))))

\* toVec (lines 123-132)
toVec(p, q) == << p[1], p[2], p[3], qw(q), qx(q), qy(q), qz(q) >>

\* isUpadatable(): declared in imu/ekf.hpp; the filter is updatable once init
\* has run
isUpadatable == initialized

\* getScale and normalizeRotation of core/util.hpp: the norm of a column of
\* the rotation block, and the block with that factor removed
getScale(T) == norm(<<T[1][1], T[2][1], T[3][1]>>)
normalizeRotation(T) ==
  LET B == topLeftCorner3(T)
      s == getScale(T)
  IN  Strict([i \in 1..3 |-> VDivS(B[i], s)])

\* init (lines 24-32)
init(T, v) ==
  LET R == topLeftCorner3(T)
  IN  /\ ncalls < MaxCalls
      /\ pos' = topRightCorner31(T)
      /\ qua' = quatNormalized(quatFromMatrix(R))
      /\ vel' = v
      /\ P' = MatScale(Half, Identity(9))
      /\ initialized' = TRUE
      /\ call' = [op |-> "init", T |-> T, v |-> v]
      /\ loc' = [op |-> "init"]
      /\ ncalls' = ncalls + 1
      /\ UNCHANGED <<scale, last_ns, W, hist_ns, hist_obs>>

\* line 40 with a signed difference
dtSigned(ns, last) == RInt(ns - last)

\* line 40: static_cast<float>(ns - last_ns) * 1e-9f, the difference taken
\* in unsigned long
dtOf(ns, last) == RInt((ns - last) % TsMod)

\* line 54's noise term LQL * dt
noise(dt) == MatScale(dt, LQL)

\* predict, lines 40-54: the propagation
\* (each local is bound once, in the order the code computes it)
predictPropagate(acc, omega, ns) ==
  \E dt \in {dtOf(ns, last_ns)} :
  \E R \in {toRotationMatrix(qua)} :
  \E dq \in {exp(VScale(dt, omega))} :
  \E nominal_acc \in {VSub(MatVec(R, acc), gravity)} :
  \E qua1 \in {quatMul(qua, dq)} :
  \E F \in {calcF(qua1, acc, dt)} :
      /\ last_ns' = ns
      /\ pos' = VAdd(pos, VAdd(VScale(dt, vel),
                               VScale(RMul(dt, dt), VScale(Half, nominal_acc))))
      /\ vel' = VAdd(vel, VScale(dt, nominal_acc))
      /\ qua' = qua1
      /\ P' = MatAdd(MatMul(MatMul(F, P), Transpose(F)), noise(dt))
      /\ loc' = [op |-> "predict", gated |-> FALSE, dt |-> dt, dq |-> dq, F |-> F,
                 after_obs |-> hist_obs]

\* lines 36-39 without the return: the propagation runs
predictFallThrough(acc, omega, ns) == predictPropagate(acc, omega, ns)

\* predict, lines 36-39: the filter is not updatable
predictGated(acc, omega, ns) ==
  /\ last_ns' = ns
  /\ loc' = [op |-> "predict", gated |-> TRUE]
  /\ UNCHANGED <<pos, vel, qua, P>>

\* predict (lines 34-57)
predict(acc, omega, ns) ==
  /\ ncalls < MaxCalls
  /\ IF ~isUpadatable
     THEN predictGated(acc, omega, ns)
     ELSE predictPropagate(acc, omega, ns)
  /\ call' = [op |-> "predict", acc |-> acc, omega |-> omega, ns |-> ns]
  /\ ncalls' = ncalls + 1
  /\ hist_ns' = ns
  /\ hist_obs' = FALSE
  /\ UNCHANGED <<scale, W, initialized>>

\* observe, lines 70-93
\* (each local is bound once, in the order the code computes it)
observeUpdate(T) ==
  \E R \in {normalizeRotation(T)} :
  \E q \in {quatFromMatrix(R)} :
  \E t \in {topRightCorner31(T)} :
  \E H \in {calcH(qua)} :
  \E S \in {MatAdd(MatMul(MatMul(H, P), Transpose(H)), W)} :
  \E Si \in {inverse(S)} :
  \E K \in {MatMul(MatMul(P, Transpose(H)), Si)} :
  \E error \in {VSub(toVec(t, q), toVec(pos, qua))} :
  \E dx \in {MatVec(K, error)} :
  \E dxAtt \in {<<dx[7], dx[8], dx[9]>>} :
  \E dq \in {IF dxAtt = Zero3 \/ VHasNaN(dxAtt) THEN exp(dxAtt) ELSE NaN} :
      /\ dxAtt = Zero3 \/ VHasNaN(dxAtt)
      /\ scale' = getScale(T)
      /\ pos' = VAdd(pos, <<dx[1], dx[2], dx[3]>>)
      /\ vel' = VAdd(vel, <<dx[4], dx[5], dx[6]>>)
      /\ qua' = quatMul(qua, dq)
      /\ P' = MatSub(P, MatMul(MatMul(K, H), P))
      /\ loc' = [op |-> "observe", error |-> error, dq |-> dq]

\* observe with lines 61-66 in force: the time stamp is recorded
observeStamped(T, ns) ==
  /\ ncalls < MaxCalls
  /\ observeUpdate(T)
  /\ last_ns' = ns
  /\ call' = [op |-> "observe", T |-> T, ns |-> ns]
  /\ ncalls' = ncalls + 1
  /\ hist_obs' = TRUE
  /\ UNCHANGED <<W, initialized, hist_ns>>

\* observe (lines 59-96)
observe(T, ns) ==
  /\ ncalls < MaxCalls
  /\ observeUpdate(T)
  /\ call' = [op |-> "observe", T |-> T, ns |-> ns]
  /\ ncalls' = ncalls + 1
  /\ hist_obs' = TRUE
  /\ UNCHANGED <<last_ns, W, initialized, hist_ns>>

\* a call of getState
readState ==
  /\ call' = [op |-> "getState"]
  /\ loc' = [op |-> "getState", ret |-> getState]
  /\ UNCHANGED <<pos, vel, qua, scale, P, last_ns, W, initialized, ncalls,
                 hist_ns, hist_obs>>

\* Measured poses: the estimate itself or the estimate moved by one unit
\* along x, at scale 1 or 2
ObsScales == {One, RInt(2)}
ObsPoses ==
  { MakePose(s, toRotationMatrix(qua), VAdd(pos, d)) :
      s \in ObsScales, d \in {Zero3, <<One, Zero, Zero>>} }
ObsStamps == {TsMod - 1}

\* The filter as constructed
InitMembers ==
  /\ pos = Zero3
  /\ vel = Zero3
  /\ qua = QIdentity
  /\ scale = One
  /\ P = ZeroMat(9, 9)
  /\ last_ns = 0
  /\ initialized = FALSE
  /\ call = [op |-> "none"]
  /\ loc = [op |-> "none"]
  /\ ncalls = 0
  /\ hist_ns = -1
  /\ hist_obs = FALSE

Init == InitMembers /\ W \in {WNominal, WZero}
InitNominal == InitMembers /\ W = WNominal

Next ==
  \/ \E a \in InitArgs : init(a[1], a[2])
  \/ \E a \in ImuArgs, ns \in TimeStamps : predict(a[1], a[2], ns)
  \/ \E T \in ObsPoses, ns \in ObsStamps : observe(T, ns)
  \/ readState

Spec == Init /\ [][Next]_vars
SpecNominal == InitNominal /\ [][Next]_vars

(* ------------------------------ claims -------------------------------- *)

IsCall(name) == call'.op = name /\ ncalls' = ncalls + 1
Propagates == IsCall("predict") /\ isUpadatable
Finite == ~VHasNaN(pos) /\ ~VHasNaN(vel) /\ ~VHasNaN(qua) /\ ~MatHasNaN(P)
Zero7 == <<Zero, Zero, Zero, Zero, Zero, Zero, Zero>>

\* The innovation covariance observe would compute in this state is singular
SingularS ==
  LET H == calcH(qua)
      S == MatAdd(MatMul(MatMul(H, P), Transpose(H)), W)
  IN  ~MatHasNaN(S) /\ MatHasNaN(inverse(S))

\* C1: a predict made before init has run records its time stamp as last_ns
\* and changes none of pos, vel, qua and P, however many were made before it;
\* the filter stays not updatable.
C1_PredictBeforeInitInert ==
  [][ (IsCall("predict") /\ ~initialized) =>
        /\ last_ns' = call'.ns
        /\ pos' = pos /\ vel' = vel /\ qua' = qua /\ P' = P
        /\ ~initialized' ]_vars

C1_Witness ==
  /\ ~initialized /\ ncalls >= 3
  /\ call.op = "predict" /\ call.acc # Zero3 /\ call.omega # Zero3
  /\ last_ns = 1 /\ hist_obs = FALSE

\* C2: once init has run, the orientation quaternion has norm 1 in every
\* state.
C2_UnitNorm == initialized => Dot(qua, qua) = One

\* C3: an observe whose measured pose is exactly what getState returns in
\* the state it is called in has a zero residual and changes none of pos,
\* vel and qua.
C3_NullUpdate ==
  [][ (IsCall("observe") /\ initialized /\ call'.T = getState) =>
        /\ loc'.error = Zero7
        /\ pos' = pos /\ vel' = vel /\ qua' = qua ]_vars

\* C4: a predict of an updatable filter whose time stamp equals last_ns
\* computes dt = 0 and dq = the identity quaternion and changes none of pos,
\* vel, qua and P, whatever acc and omega are.
C4_ZeroDtPredict ==
  [][ (Propagates /\ call'.ns = last_ns) =>
        /\ loc'.dt = Zero /\ loc'.dq = QIdentity
        /\ pos' = pos /\ vel' = vel /\ qua' = qua /\ P' = P ]_vars

C4_Witness ==
  /\ call.op = "predict" /\ ~loc.gated /\ loc.dt = Zero
  /\ call.acc # Zero3 /\ call.omega # Zero3
  /\ Finite /\ qua # QIdentity /\ P # MatScale(Half, Identity(9))

\* C5: getState changes no member, and the matrix it returns has bottom row
\* [0,0,0,1], translation block pos and rotation block scale times the
\* rotation matrix of qua.
C5_GetStatePure ==
  [][ (call'.op = "getState") =>
        /\ UNCHANGED <<pos, vel, qua, scale, P, last_ns>>
        /\ loc'.ret[4] = <<Zero, Zero, Zero, One>>
        /\ topRightCorner31(loc'.ret) = pos
        /\ topLeftCorner3(loc'.ret) = MatScale(scale, toRotationMatrix(qua)) ]_vars

C5_Witness ==
  /\ call.op = "getState" /\ initialized /\ scale = RInt(2)
  /\ qua # QIdentity /\ pos # Zero3 /\ Finite
  /\ loc.ret[1][1] # toRotationMatrix(qua)[1][1]

\* C6 as claimed: a predict of an updatable filter whose time stamp is
\* smaller than last_ns computes a negative dt.
C6_NegativeDt ==
  [][ (Propagates /\ call'.ns < last_ns) => loc'.dt[1] < 0 ]_vars

\* C6 as amended: that dt is the difference taken modulo the range of
\* unsigned long, ns - last_ns + TsMod, which is positive.
C6_WrappedDt ==
  [][ (Propagates /\ call'.ns < last_ns) =>
        /\ loc'.dt = RInt(call'.ns - last_ns + TsMod)
        /\ loc'.dt[1] > 0 ]_vars

C6_Witness ==
  /\ call.op = "predict" /\ ~loc.gated
  /\ call.ns = 0 /\ loc.dt = RInt(TsMod - 1) /\ call.omega # Zero3

\* C7: init sets pos to the pose's translation, qua to the unit quaternion
\* along the quaternion of the pose's rotation block, vel to the given
\* velocity and P to 0.5 times the identity, and keeps scale and last_ns.
C7_InitEffect ==
  [][ IsCall("init") =>
        LET q0 == quatFromMatrix(topLeftCorner3(call'.T))
        IN  /\ pos' = topRightCorner31(call'.T)
            /\ Dot(qua', qua') = One
            /\ VScale(norm(q0), qua') = q0
            /\ vel' = call'.v
            /\ \A i, j \in 1..9 : P'[i][j] = IF i = j THEN Half ELSE Zero
            /\ Len(P') = 9 /\ Len(P'[1]) = 9
            /\ scale' = scale /\ last_ns' = last_ns ]_vars

C7_Witness ==
  /\ call.op = "init" /\ ncalls >= 3
  /\ topLeftCorner3(call.T)[1][1] = RInt(5)
  /\ scale = RInt(2) /\ last_ns # 0

\* C8: an observe made when the innovation covariance is singular changes
\* none of pos, vel, qua and P and leaves them finite.
C8_SingularSkipped ==
  [][ (IsCall("observe") /\ initialized /\ Finite /\ SingularS) =>
        /\ pos' = pos /\ vel' = vel /\ qua' = qua /\ P' = P
        /\ Finite' ]_vars

\* C9: in a propagating predict with non-zero angular rate and dt, the
\* block of F at rows 3-5, columns 6-8 is -hat(R * acc) * dt with R the
\* rotation matrix of qua as it was when predict was called.
C9_JacobianUsesPriorR ==
  [][ (Propagates /\ Finite /\ call'.omega # Zero3 /\ loc'.dt # Zero) =>
        Block(loc'.F, 3, 6, 3, 3) =
          MatScale(loc'.dt, MatScale(RInt(-1),
            hat(MatVec(toRotationMatrix(qua), call'.acc)))) ]_vars

\* C10: observe leaves last_ns alone, before and after init; last_ns is the
\* time stamp of the most recent predict, and the dt of a propagating predict
\* is measured from it, whether or not observe ran in between.
C10_LastNsIsLastPredict ==
  [][ /\ IsCall("observe") => last_ns' = last_ns
      /\ hist_ns' # -1 => last_ns' = hist_ns'
      /\ (Propagates /\ hist_ns # -1) =>
           loc'.dt = RInt((call'.ns - hist_ns) % TsMod) ]_vars

C10_Witness ==
  /\ call.op = "predict" /\ ~loc.gated /\ loc.after_obs
  /\ loc.dt = One /\ call.ns = 1 /\ ncalls >= 4
====
